---- MODULE Spec2Model ----
(***************************************************************************)
(* The to-do list example of Workshop 2 (todo-list/src/App.js): the task   *)
(* list reducer, the Form and Task components that dispatch to it, and the *)
(* App component that holds the list through useReducer.                   *)
(*                                                                         *)
(* The click counter of Workshop 1 (my-app/src/App.js) and the counter     *)
(* reducer of Workshop 2 (Workshop2.md, "Working with useReducer") have a  *)
(* specification each, ClickCounterSpec and CounterReducerSpec.            *)
(*                                                                         *)
(* MovieSpec is the show-search application of Workshop 3: ThemeProvider   *)
(* (Workshop3.md, ThemeContext.js), Header and the routes of App.js, Home   *)
(* (components/Home.jsx) and ShowDetail (components/ShowDetail.jsx).        *)
(*                                                                         *)
(* FetchSpec is the useFetch hook of Workshop 4 (Workshop4.md),            *)
(* PreviousValueSpec the PreviousValueExample component and ProtectedSpec  *)
(* the ProtectedRoute component of Workshop 3 (Workshop3.md).              *)
(*                                                                         *)
(* The to-do list has two specifications:                                  *)
(*   ReducerSpec  the reducer alone, called on lists and actions drawn     *)
(*                from bounded sets.  JavaScript arrays are objects, so    *)
(*                the lists live in a store of arrays addressed by         *)
(*                reference: `[...state, x]` and `state.filter(..)` make a *)
(*                new array, `return state` returns the one it was given.  *)
(*   Spec         the application: the Form's two inputs, the task list    *)
(*                held by useReducer, and the click handlers.              *)
(***************************************************************************)
EXTENDS Integers, Sequences, FiniteSets, TLC

VARIABLES
    store,          \* ReducerSpec: the arrays that exist, by reference 1..Len(store)
    cur,            \* ReducerSpec: reference the last call of reducer returned
    prev,           \* ReducerSpec: reference that call was given as `state`
    prevSnapshot,   \* ReducerSpec: contents of store[prev] when the call was made
    lastAction,     \* ReducerSpec: the action that call was given
    calls,          \* ReducerSpec: number of calls made
    tasks,          \* Spec: App's `tasks`, the state held by useReducer
    title,          \* Spec: Form's `title` state
    description,    \* Spec: Form's `description` state
    dispatched,     \* Spec: the actions passed to setTasks so far, in order
    count,          \* ClickCounterSpec: the `count` state of App
    shownCount,     \* ClickCounterSpec: `count` of the current render, which the
                    \*   <h2> shows and the two handlers close over
    increments,     \* ClickCounterSpec: Increment clicks so far
    decrements,     \* ClickCounterSpec: Decrement clicks so far
    counterState,   \* CounterReducerSpec: the state held by useReducer(counterReducer, ..)
    counterAction,  \* CounterReducerSpec: the action dispatched last
    counterDispatches, \* CounterReducerSpec: number of actions dispatched
    incsSinceReset, \* CounterReducerSpec: 'increment' actions since the last 'reset'
    decsSinceReset, \* CounterReducerSpec: 'decrement' actions since the last 'reset'
    darkMode,       \* MovieSpec: ThemeProvider's `darkMode` state
    toggles,        \* MovieSpec: calls of toggleTheme so far
    history,        \* MovieSpec: the browser's history entries: 0 is "/", n is "/show/n"
    histIdx,        \* MovieSpec: the current entry of `history`
    searchInput,    \* MovieSpec: value of Home's <input> (searchInput.current.value)
    shows,          \* MovieSpec: Home's `shows` state, as the ids of the shows listed
    searchRequests, \* MovieSpec: queries of the mounted Home still being fetched
    show,           \* MovieSpec: ShowDetail's `show` state: 0 is null, n the data of show n
    detailRequests, \* MovieSpec: ids the mounted ShowDetail is still fetching
    lastEvent,      \* MovieSpec: the handler or callback that ran last
    lastQuery,      \* MovieSpec: query of the search the mounted Home started last
    searchFailed,   \* MovieSpec: a search of the mounted Home got no usable answer
    url,            \* FetchSpec: the `url` the component passes to useFetch
    data,           \* FetchSpec: useFetch's `data` state: 0 is null, n the body served for url n
    loading,        \* FetchSpec: useFetch's `loading` state
    error,          \* FetchSpec: useFetch's `error` state: Null or err.message
    fetchRequests,  \* FetchSpec: urls of the fetchData calls that have not finished
    fetchEvent,     \* FetchSpec: what happened last: the effect ran or a request finished
    fetchSettled,   \* FetchSpec: url of the request that finished last, 0 if none
    pvCount,        \* PreviousValueSpec: the `count` state of PreviousValueExample
    previousCount,  \* PreviousValueSpec: previousCount.current
    shownCurrent,   \* PreviousValueSpec: what the last render put after "Current:"
    shownPrevious,  \* PreviousValueSpec: what the last render put after "Previous:"
    effectPending,  \* PreviousValueSpec: the last render's effect has not run yet
    pvClicks,       \* PreviousValueSpec: Increment clicks so far
    renderCause,    \* PreviousValueSpec: what caused the last render
    user,           \* ProtectedSpec: the `user` prop given to ProtectedRoute
    location,       \* ProtectedSpec: the history entries, as paths
    locIdx,         \* ProtectedSpec: the current entry of `location`
    screen,         \* ProtectedSpec: what the page shows
    guardProps,     \* ProtectedSpec: the props of the last render of ProtectedRoute
    guardOutput,    \* ProtectedSpec: what that render returned
    guardIdx        \* ProtectedSpec: the history entry that render took place at

reducerVars == <<store, cur, prev, prevSnapshot, lastAction, calls>>
appVars == <<tasks, title, description, dispatched>>
clickVars == <<count, shownCount, increments, decrements>>
counterVars == <<counterState, counterAction, counterDispatches,
                 incsSinceReset, decsSinceReset>>

themeVars == <<darkMode, toggles>>
routeVars == <<history, histIdx>>
homeVars == <<searchInput, shows, searchRequests>>
detailVars == <<show, detailRequests>>
searchGhost == <<lastQuery, searchFailed>>
movieVars == <<themeVars, routeVars, homeVars, detailVars, lastEvent, searchGhost>>

fetchVars == <<url, data, loading, error, fetchRequests, fetchEvent, fetchSettled>>
prevValueVars == <<pvCount, previousCount, shownCurrent, shownPrevious,
                   effectPending, pvClicks, renderCause>>
protectedVars == <<user, location, locIdx, screen, guardProps, guardOutput, guardIdx>>

vars == <<reducerVars, appVars, clickVars, counterVars, movieVars,
          fetchVars, prevValueVars, protectedVars>>

(***************************************************************************)
(* Bounds and input alphabets.                                             *)
(***************************************************************************)
MaxLen == 2          \* longest list ReducerSpec starts a run from
MaxCalls == 2        \* reducer calls in one ReducerSpec run
MaxDispatch == 3     \* actions dispatched in one Spec run
MaxClicks == 13      \* clicks in one ClickCounterSpec run
MaxCounterDispatch == 5  \* actions dispatched in one CounterReducerSpec run
MaxToggles == 3      \* theme toggles in one MovieSpec run
MaxHistory == 4      \* history entries in one MovieSpec run
MaxInFlight == 2     \* requests one component has in flight at a time
MaxPrevClicks == 30  \* Increment clicks in one PreviousValueSpec run

Titles == {"", "A", "B"}
Descriptions == {"", "x"}
DeleteKeys == Titles \cup {"Z"}     \* "Z" is the title of no task
UnknownTypes == {"add_task", "CLEAR_TASKS"}

TaskValues == [title : Titles, description : Descriptions]

Null == "@@null"     \* JavaScript's null, where the other values are strings
NullRef == -1        \* null in previousCount.current, whose other values are counts
FetchUrls == {1, 2}
Users == {"alice", "bob"}
Paths == {"/", "/dashboard", "/settings"}

RECURSIVE ListsUpTo(_)
ListsUpTo(n) ==
    IF n = 0 THEN {<<>>}
    ELSE LET shorter == ListsUpTo(n - 1)
         IN  shorter \cup {Append(l, t) : l \in {s \in shorter : Len(s) = n - 1},
                                          t \in TaskValues}

(***************************************************************************)
(* Actions, as the components build them.                                  *)
(***************************************************************************)
AddTask(newTask) == [type |-> "ADD_TASK", payload |-> newTask]
DeleteTask(key) == [type |-> "DELETE_TASK", payload |-> key]

(***************************************************************************)
(* reducer(state, action), App.js lines 5-14.  `h` is the store the call   *)
(* runs in and `state` a reference into it; the result is the store after  *)
(* the call and the reference returned.                                    *)
(***************************************************************************)
NewArray(h, elems) == [heap |-> Append(h, elems), ref |-> Len(h) + 1]

\* return [...state, action.payload]
\* (mutant: state.push(action.payload); return state)
addTaskCase_push(h, state, action) ==
    [heap |-> [h EXCEPT ![state] = Append(@, action.payload)], ref |-> state]

\* (mutant: return [action.payload, ...state])
addTaskCase_prepend(h, state, action) ==
    NewArray(h, <<action.payload>> \o h[state])

addTaskCase(h, state, action) ==
    NewArray(h, Append(h[state], action.payload))

\* return state.filter((task) => task.title !== action.payload)
\* (mutant: the test written task.title === action.payload)
deleteTaskCase_keepMatching(h, state, action) ==
    NewArray(h, SelectSeq(h[state], LAMBDA task : task.title = action.payload))

\* (mutant: only the first task with that title is removed)
deleteTaskCase_firstMatch(h, state, action) ==
    LET list == h[state]
        hits == {i \in 1..Len(list) : list[i].title = action.payload}
        first == CHOOSE i \in hits : \A j \in hits : i <= j
    IN  IF hits = {} THEN NewArray(h, list)
        ELSE NewArray(h, SubSeq(list, 1, first - 1) \o SubSeq(list, first + 1, Len(list)))

\* (mutant: the test written task.description !== action.payload)
deleteTaskCase_byDescription(h, state, action) ==
    NewArray(h, SelectSeq(h[state], LAMBDA task : task.description # action.payload))

\* (mutant: the task is removed by position, one position too far:
\*  i = state.findIndex(task => task.title === action.payload), then
\*  state.filter((task, j) => j !== i + 1); findIndex gives -1 when no task
\*  has the title, and the first task is removed)
deleteTaskCase_offByOne(h, state, action) ==
    LET list == h[state]
        hits == {i \in 1..Len(list) : list[i].title = action.payload}
        first == IF hits = {} THEN 0 ELSE CHOOSE i \in hits : \A j \in hits : i <= j
    IN  NewArray(h, SubSeq(list, 1, first) \o SubSeq(list, first + 2, Len(list)))

deleteTaskCase(h, state, action) ==
    NewArray(h, SelectSeq(h[state], LAMBDA task : task.title # action.payload))

\* default: return state
\* (mutant: the default branch left out, so the function returns undefined;
\*  reference 0 is no array)
defaultCase_missing(h, state, action) ==
    [heap |-> h, ref |-> 0]

\* (mutant: default: return [])
defaultCase_empty(h, state, action) ==
    NewArray(h, <<>>)

defaultCase(h, state, action) ==
    [heap |-> h, ref |-> state]

reducer(h, state, action) ==
    CASE action.type = "ADD_TASK" -> addTaskCase(h, state, action)
      [] action.type = "DELETE_TASK" -> deleteTaskCase(h, state, action)
      [] OTHER -> defaultCase(h, state, action)

(***************************************************************************)
(* ReducerSpec: reducer called on a list drawn from ListsUpTo(MaxLen),     *)
(* then again on what it returned.                                         *)
(***************************************************************************)
AppInit ==
    /\ tasks = <<>>
    /\ title = ""
    /\ description = ""
    /\ dispatched = <<>>

\* The variables of the specifications that are not running stay as
\* constructed.
ReducerIdle ==
    /\ store = <<<<>>>>
    /\ cur = 1
    /\ prev = 1
    /\ prevSnapshot = <<>>
    /\ lastAction = [type |-> "@@INIT"]
    /\ calls = 0

ClickInit ==
    /\ count = 0
    /\ shownCount = 0
    /\ increments = 0
    /\ decrements = 0

CounterInit ==
    /\ counterState = [count |-> 0]
    /\ counterAction = [type |-> "@@INIT"]
    /\ counterDispatches = 0
    /\ incsSinceReset = 0
    /\ decsSinceReset = 0

MovieInit ==
    /\ darkMode = FALSE
    /\ toggles = 0
    /\ history = <<0>>
    /\ histIdx = 1
    /\ searchInput = ""
    /\ shows = <<>>
    /\ searchRequests = <<>>
    /\ show = 0
    /\ detailRequests = <<>>
    /\ lastEvent = "mount"
    /\ lastQuery = ""
    /\ searchFailed = FALSE

\* useFetch(u) after the first render and its effect: the three states hold
\* their initial values and fetchData() has sent the request.
FetchMounted(u) ==
    /\ url = u
    /\ data = 0
    /\ loading = TRUE
    /\ error = Null
    /\ fetchRequests = <<u>>
    /\ fetchEvent = "effect"
    /\ fetchSettled = 0

FetchIdle == FetchMounted(1)

\* PreviousValueExample after its first render: useState(0), useRef(null);
\* the effect of that render has not run yet.
PrevValueInit ==
    /\ pvCount = 0
    /\ previousCount = NullRef
    /\ shownCurrent = 0
    /\ shownPrevious = NullRef
    /\ effectPending = TRUE
    /\ pvClicks = 0
    /\ renderCause = "mount"

\* The application that uses ProtectedRoute, opened at "/" with nobody
\* logged in: ProtectedRoute has not been rendered.
ProtectedInit ==
    /\ user = Null
    /\ location = <<"/">>
    /\ locIdx = 1
    /\ screen = [type |-> "Home"]
    /\ guardProps = [user |-> Null, children |-> [type |-> "Home"]]
    /\ guardOutput = [type |-> "Home"]
    /\ guardIdx = 0

ReducerInit ==
    /\ store \in {<<l>> : l \in ListsUpTo(MaxLen)}
    /\ cur = 1
    /\ prev = 1
    /\ prevSnapshot = store[1]
    /\ lastAction = [type |-> "@@INIT"]
    /\ calls = 0
    /\ AppInit
    /\ ClickInit
    /\ CounterInit
    /\ MovieInit
    /\ FetchIdle
    /\ PrevValueInit
    /\ ProtectedInit

Call(action) ==
    /\ calls < MaxCalls
    /\ LET r == reducer(store, cur, action)
       IN  /\ store' = r.heap
           /\ cur' = r.ref
    /\ prev' = cur
    /\ prevSnapshot' = store[cur]
    /\ lastAction' = action
    /\ calls' = calls + 1
    /\ UNCHANGED <<appVars, clickVars, counterVars, movieVars,
                    fetchVars, prevValueVars, protectedVars>>

CallAdd == \E t \in TaskValues : Call(AddTask(t))
CallDelete == \E k \in DeleteKeys : Call(DeleteTask(k))
CallUnknown ==
    \/ \E ty \in UnknownTypes :
            Call([type |-> ty, payload |-> [title |-> "B", description |-> ""]])
    \/ \E ty \in UnknownTypes : Call([type |-> ty])

ReducerNext == CallAdd \/ CallDelete \/ CallUnknown

ReducerSpec == ReducerInit /\ [][ReducerNext]_vars

(***************************************************************************)
(* Spec: the application.                                                  *)
(***************************************************************************)
\* useReducer(reducer, []): on dispatch React passes the current state and
\* the action to reducer, and what it returns becomes the state
\* (Workshop2.md, "Working with useReducer").  A click is handled, and the
\* component rendered again, before the next click is handled.
useReducer(list, action) ==
    LET r == reducer(<<list>>, 1, action) IN r.heap[r.ref]

\* (mutant: the action is applied to the list of the first render, as a
\*  handler that closed over a stale `tasks` would)
setTasks_stale(action) ==
    /\ tasks' = useReducer(<<>>, action)
    /\ dispatched' = Append(dispatched, action)

setTasks(action) ==
    /\ tasks' = useReducer(tasks, action)
    /\ dispatched' = Append(dispatched, action)

Init ==
    /\ AppInit
    /\ ReducerIdle
    /\ ClickInit
    /\ CounterInit
    /\ MovieInit
    /\ FetchIdle
    /\ PrevValueInit
    /\ ProtectedInit

\* (mutant: the title input's onChange also renames the task added last)
setTitle_renames(value) ==
    /\ title' = value
    /\ tasks' = IF tasks = <<>> THEN tasks
                ELSE [tasks EXCEPT ![Len(tasks)].title = value]
    /\ UNCHANGED <<description, dispatched>>

\* <input value={title} onChange=...>
setTitle(value) ==
    /\ title' = value
    /\ UNCHANGED <<tasks, description, dispatched>>

\* <textarea value={description} onChange=...>
setDescription(value) ==
    /\ description' = value
    /\ UNCHANGED <<tasks, title, dispatched>>

\* (mutant: the handler leaves the description as typed)
AddTaskClick_keepsDescription ==
    /\ Len(dispatched) < MaxDispatch
    /\ LET newTask == [title |-> title, description |-> description]
       IN  setTasks(AddTask(newTask))
    /\ title' = ""
    /\ description' = description

\* (mutant: the handler returns early on an empty title)
AddTaskClick_requiresTitle ==
    /\ Len(dispatched) < MaxDispatch
    /\ title # ""
    /\ LET newTask == [title |-> title, description |-> description]
       IN  setTasks(AddTask(newTask))
    /\ title' = ""
    /\ description' = ""

\* The Add Task button's onClick.
AddTaskClick ==
    /\ Len(dispatched) < MaxDispatch
    /\ LET newTask == [title |-> title, description |-> description]
       IN  setTasks(AddTask(newTask))
    /\ title' = ""
    /\ description' = ""

\* (mutant: the button dispatches the task's description)
DeleteTaskClick_byDescription(index) ==
    /\ Len(dispatched) < MaxDispatch
    /\ setTasks(DeleteTask(tasks[index].description))
    /\ UNCHANGED <<title, description>>

\* The Delete Task button of the Task rendered for tasks[index].
DeleteTaskClick(index) ==
    /\ Len(dispatched) < MaxDispatch
    /\ setTasks(DeleteTask(tasks[index].title))
    /\ UNCHANGED <<title, description>>

\* Tasks: tasks.map((task,index) => <Task key={index} .../>): the key of the
\* Task rendered for the element at position i (from 1) of `list` is its
\* array index i - 1.
TasksKeys(list) == [i \in 1..Len(list) |-> i - 1]

AppIdle ==
    UNCHANGED <<reducerVars, clickVars, counterVars, movieVars,
                fetchVars, prevValueVars, protectedVars>>

TitleChange == \E v \in Titles : setTitle(v) /\ AppIdle
DescriptionChange == \E v \in Descriptions : setDescription(v) /\ AppIdle
AddClick == AddTaskClick /\ AppIdle
DeleteClick == \E i \in 1..Len(tasks) : DeleteTaskClick(i) /\ AppIdle

Next == TitleChange \/ DescriptionChange \/ AddClick \/ DeleteClick

Spec == Init /\ [][Next]_vars

(***************************************************************************)
(* ClickCounterSpec: the click counter of Workshop 1.  A click runs the    *)
(* handler of the current render, which calls setCount with a value built  *)
(* from that render's `count`; React then renders App again before the     *)
(* next click is handled, so the next handler closes over the new count.   *)
(***************************************************************************)
\* (mutant: the handler closes over the count of the first render)
handleIncrement_stale ==
    /\ increments + decrements < MaxClicks
    /\ count' = 0 + 1
    /\ shownCount' = count'
    /\ increments' = increments + 1
    /\ UNCHANGED decrements

\* const handleIncrement = () => { setCount(count + 1); };
handleIncrement ==
    /\ increments + decrements < MaxClicks
    /\ count' = shownCount + 1
    /\ shownCount' = count'
    /\ increments' = increments + 1
    /\ UNCHANGED decrements

\* const handleDecrement = () => { setCount(count - 1); };
handleDecrement ==
    /\ increments + decrements < MaxClicks
    /\ count' = shownCount - 1
    /\ shownCount' = count'
    /\ decrements' = decrements + 1
    /\ UNCHANGED increments

ClickIdle ==
    UNCHANGED <<reducerVars, appVars, counterVars, movieVars,
                fetchVars, prevValueVars, protectedVars>>

IncrementClick == handleIncrement /\ ClickIdle
DecrementClick == handleDecrement /\ ClickIdle

ClickCounterInit ==
    /\ ClickInit
    /\ ReducerIdle
    /\ AppInit
    /\ CounterInit
    /\ MovieInit
    /\ FetchIdle
    /\ PrevValueInit
    /\ ProtectedInit

ClickCounterNext == IncrementClick \/ DecrementClick

ClickCounterSpec == ClickCounterInit /\ [][ClickCounterNext]_vars

(***************************************************************************)
(* CounterReducerSpec: counterReducer and the Counter component that       *)
(* dispatches to it (Workshop2.md lines 16-46; Workshop4.md repeats it).   *)
(***************************************************************************)
CounterTypes == {"increment", "decrement", "reset"}
\* Types counterReducer has no case for; "INCREMENT" is the spelling of the
\* Redux reducer of Workshop 4.
OtherCounterTypes == {"INCREMENT", "double"}

\* (mutant: the 'decrement' case copied from 'increment' unchanged)
counterReducer_decrementAdds(state, action) ==
    CASE action.type = "increment" -> [count |-> state.count + 1]
      [] action.type = "decrement" -> [count |-> state.count + 1]
      [] action.type = "reset" -> [count |-> 0]
      [] OTHER -> state

counterReducer(state, action) ==
    CASE action.type = "increment" -> [count |-> state.count + 1]
      [] action.type = "decrement" -> [count |-> state.count - 1]
      [] action.type = "reset" -> [count |-> 0]
      [] OTHER -> state

\* dispatch(action): the state becomes what counterReducer returns.
counterDispatch(action) ==
    /\ counterDispatches < MaxCounterDispatch
    /\ counterState' = counterReducer(counterState, action)
    /\ counterAction' = action
    /\ counterDispatches' = counterDispatches + 1
    /\ incsSinceReset' = CASE action.type = "increment" -> incsSinceReset + 1
                            [] action.type = "reset" -> 0
                            [] OTHER -> incsSinceReset
    /\ decsSinceReset' = CASE action.type = "decrement" -> decsSinceReset + 1
                            [] action.type = "reset" -> 0
                            [] OTHER -> decsSinceReset

CounterIdle ==
    UNCHANGED <<reducerVars, appVars, clickVars, movieVars,
                fetchVars, prevValueVars, protectedVars>>

CounterButton == \E ty \in CounterTypes : counterDispatch([type |-> ty]) /\ CounterIdle
CounterOther == \E ty \in OtherCounterTypes : counterDispatch([type |-> ty]) /\ CounterIdle

CounterReducerInit ==
    /\ CounterInit
    /\ ReducerIdle
    /\ AppInit
    /\ ClickInit
    /\ MovieInit
    /\ FetchIdle
    /\ PrevValueInit
    /\ ProtectedInit

CounterReducerNext == CounterButton \/ CounterOther

CounterReducerSpec == CounterReducerInit /\ [][CounterReducerNext]_vars

(***************************************************************************)
(* MovieSpec: the show-search application of Workshop 3.                    *)
(*                                                                         *)
(* App renders ThemeProvider around BrowserRouter, Header and the Routes;  *)
(* "/" renders Home and "/show/:id" renders ShowDetail.  A component that  *)
(* is not rendered holds no state: its variables are kept at their initial *)
(* values, and a response to a request of a component that has been        *)
(* unmounted sets no state, so such requests are dropped at the unmount.   *)
(***************************************************************************)
ShowIds == {1, 2}
Queries == {"", "a", "b"}

\* What the search API answers for a query, as the ids of the shows found.
SearchResults(query) ==
    CASE query = "a" -> <<1>>
      [] query = "b" -> <<2, 1>>
      [] OTHER -> <<>>

Route == history[histIdx]
RemoveAt(seq, i) == SubSeq(seq, 1, i - 1) \o SubSeq(seq, i + 1, Len(seq))

\* (mutant: toggleTheme written () => setDarkMode(true))
toggleTheme_setsTrue ==
    /\ toggles < MaxToggles
    /\ darkMode' = TRUE
    /\ toggles' = toggles + 1

\* ThemeProvider: const toggleTheme = () => setDarkMode(!darkMode);
\* Header's button calls it once per click, and ThemeProvider is rendered
\* again before the next click.
toggleTheme ==
    /\ toggles < MaxToggles
    /\ darkMode' = ~darkMode
    /\ toggles' = toggles + 1

\* What a change of the route does to the components under <Routes>.
\*   "/" -> "/show/n"       Home unmounts, ShowDetail mounts with show null
\*                          and its effect fetches show n
\*   "/show/n" -> "/"       ShowDetail unmounts, Home mounts with no shows
\*   "/show/n" -> "/show/m" ShowDetail stays mounted and keeps `show`; its
\*                          effect runs again because id changed
RouteEffects(old, new) ==
    CASE old = new ->
            UNCHANGED <<homeVars, detailVars>>
      [] old = 0 /\ new # 0 ->
            /\ searchInput' = ""
            /\ shows' = <<>>
            /\ searchRequests' = <<>>
            /\ show' = 0
            /\ detailRequests' = <<new>>
      [] old # 0 /\ new = 0 ->
            /\ searchInput' = ""
            /\ shows' = <<>>
            /\ searchRequests' = <<>>
            /\ show' = 0
            /\ detailRequests' = <<>>
      [] OTHER ->
            /\ Len(detailRequests) < MaxInFlight
            /\ show' = show
            /\ detailRequests' = Append(detailRequests, new)
            /\ UNCHANGED homeVars

\* (mutant: the links are plain <a href>, so following one loads the page
\*  again and ThemeProvider starts over)
navigate_reloads(newHistory, newIdx) ==
    /\ history' = newHistory
    /\ histIdx' = newIdx
    /\ RouteEffects(Route, newHistory[newIdx])
    /\ darkMode' = FALSE
    /\ UNCHANGED toggles

\* A route change: ThemeProvider sits above BrowserRouter in App and stays
\* mounted.
navigate(newHistory, newIdx) ==
    /\ history' = newHistory
    /\ histIdx' = newIdx
    /\ RouteEffects(Route, newHistory[newIdx])
    /\ UNCHANGED themeVars

\* Following a <Link> pushes an entry after the current one.
Pushed(route) == Append(SubSeq(history, 1, histIdx), route)

\* Home: <Link to={`/show/${item.show.id}`}>View Details</Link>
ViewDetailsClick(i) ==
    /\ Route = 0
    /\ histIdx < MaxHistory
    /\ navigate(Pushed(shows[i]), histIdx + 1)

\* ShowDetail: <Link to="/" className="back-btn">, rendered once show is set.
BackLinkClick ==
    /\ Route # 0
    /\ show # 0
    /\ histIdx < MaxHistory
    /\ navigate(Pushed(0), histIdx + 1)

\* The browser's back and forward buttons: any other entry of the history.
HistoryGo(j) ==
    /\ j # histIdx
    /\ navigate(history, j)

\* The user types into Home's input.
TypeQuery(text) ==
    /\ Route = 0
    /\ searchInput' = text
    /\ UNCHANGED <<shows, searchRequests>>

\* (mutant: `if(!query) return;` left out)
searchShows_noGuard ==
    /\ Route = 0
    /\ LET query == searchInput
       IN  /\ Len(searchRequests) < MaxInFlight
           /\ searchRequests' = Append(searchRequests, query)
           /\ UNCHANGED <<searchInput, shows>>

\* Home.searchShows up to the fetch: the Search button's onClick.
searchShows ==
    /\ Route = 0
    /\ LET query == searchInput
       IN  IF query = "" THEN UNCHANGED homeVars
           ELSE /\ Len(searchRequests) < MaxInFlight
                /\ searchRequests' = Append(searchRequests, query)
                /\ UNCHANGED <<searchInput, shows>>

\* Home.searchShows after the awaits: the response of a request arrives and
\* setShows(data) runs.  Responses arrive in any order.
searchResolved(i) ==
    /\ shows' = SearchResults(searchRequests[i])
    /\ searchRequests' = RemoveAt(searchRequests, i)
    /\ UNCHANGED searchInput

\* The fetch of a request rejects: the await throws and setShows is not
\* reached.
searchRejected(i) ==
    /\ searchRequests' = RemoveAt(searchRequests, i)
    /\ UNCHANGED <<searchInput, shows>>

\* ShowDetail's effect: .then(data => setShow(data)) of one of its fetches.
detailResolved(i) ==
    /\ show' = detailRequests[i]
    /\ detailRequests' = RemoveAt(detailRequests, i)

\* A fetch of ShowDetail rejects, or the body of its response is not JSON
\* and res.json() rejects: no callback runs.
detailRejected(i) ==
    /\ detailRequests' = RemoveAt(detailRequests, i)
    /\ UNCHANGED show

\* What the server sends with an error status (404, 429, 5xx) when the body
\* is JSON: an object that describes the error, which is not null.
ErrorBody == -1

\* The server answers a fetch of ShowDetail with an error status and a JSON
\* body.  fetch resolves whatever the status, the effect does not look at
\* res.ok, res.json() parses the body and setShow(data) stores it.
detailErrorStatus(i) ==
    /\ show' = ErrorBody
    /\ detailRequests' = RemoveAt(detailRequests, i)

\* if (!show) return <h2>Loading...</h2>; and the details otherwise.
ShowDetailRender(s) == IF s = 0 THEN "Loading..." ELSE "detail-page"

MovieIdle ==
    UNCHANGED <<reducerVars, appVars, clickVars, counterVars,
                fetchVars, prevValueVars, protectedVars>>

\* Home holds no search once it has been unmounted.
HomeRemounts ==
    IF history'[histIdx'] = Route THEN UNCHANGED searchGhost
    ELSE /\ lastQuery' = ""
         /\ searchFailed' = FALSE

ToggleClick ==
    /\ toggleTheme
    /\ lastEvent' = "toggleTheme"
    /\ UNCHANGED <<routeVars, homeVars, detailVars, searchGhost>>
    /\ MovieIdle

FollowLink ==
    /\ \/ \E i \in 1..Len(shows) : ViewDetailsClick(i)
       \/ BackLinkClick
    /\ lastEvent' = "navigate"
    /\ HomeRemounts
    /\ MovieIdle

Traverse ==
    /\ \E j \in 1..Len(history) : HistoryGo(j)
    /\ lastEvent' = "navigate"
    /\ HomeRemounts
    /\ MovieIdle

Typing ==
    /\ \E text \in Queries : TypeQuery(text)
    /\ lastEvent' = "type"
    /\ UNCHANGED <<themeVars, routeVars, detailVars, searchGhost>>
    /\ MovieIdle

SearchClick ==
    /\ searchShows
    /\ lastEvent' = "searchShows"
    /\ lastQuery' = IF searchInput = "" THEN lastQuery ELSE searchInput
    /\ UNCHANGED <<themeVars, routeVars, detailVars, searchFailed>>
    /\ MovieIdle

SearchResponse ==
    /\ \E i \in 1..Len(searchRequests) :
            \/ searchResolved(i) /\ UNCHANGED searchFailed
            \/ searchRejected(i) /\ searchFailed' = TRUE
    /\ lastEvent' = "searchResponse"
    /\ UNCHANGED <<themeVars, routeVars, detailVars, lastQuery>>
    /\ MovieIdle

DetailResponse ==
    /\ \E i \in 1..Len(detailRequests) :
            \/ detailResolved(i) /\ lastEvent' = "detailResolved"
            \/ detailRejected(i) /\ lastEvent' = "detailRejected"
            \/ detailErrorStatus(i) /\ lastEvent' = "detailErrorStatus"
    /\ UNCHANGED <<themeVars, routeVars, homeVars, searchGhost>>
    /\ MovieIdle

MovieSpecInit ==
    /\ MovieInit
    /\ FetchIdle
    /\ PrevValueInit
    /\ ProtectedInit
    /\ ReducerIdle
    /\ AppInit
    /\ ClickInit
    /\ CounterInit

MovieNext ==
    \/ ToggleClick
    \/ FollowLink
    \/ Traverse
    \/ Typing
    \/ SearchClick
    \/ SearchResponse
    \/ DetailResponse

MovieSpec == MovieSpecInit /\ [][MovieNext]_vars

(***************************************************************************)
(* FetchSpec: the useFetch hook of Workshop 4 (Workshop4.md, "Creating a   *)
(* Custom Hook"), used by a component that may pass it another url.  The   *)
(* effect has no cleanup, so the request of an earlier url stays in flight *)
(* and its callbacks set the states when it finishes.  The setters a       *)
(* request calls when it finishes are rendered together.                   *)
(***************************************************************************)
NotOkMessage == "Network response was not ok"
FailedToFetch == "Failed to fetch"    \* err.message of a fetch that rejects

\* The component renders with another url: the dependency [url] changed, so
\* the effect runs and fetchData() sends a request.  The effect sets no
\* state before the request.
urlChanged(u) ==
    /\ u # url
    /\ Len(fetchRequests) < MaxInFlight
    /\ url' = u
    /\ fetchRequests' = Append(fetchRequests, u)
    /\ UNCHANGED <<data, loading, error>>

\* try: response.ok, result = await response.json(); setData(result);
\* finally: setLoading(false)
fetchSucceeded(i) ==
    /\ data' = fetchRequests[i]
    /\ loading' = FALSE
    /\ UNCHANGED error

\* (mutant: setLoading(false) written at the end of the try block instead
\*  of in finally)
fetchFailed_noFinally(i, message) ==
    /\ error' = message
    /\ UNCHANGED <<data, loading>>

\* fetch rejects, or response.ok is false and the Error is thrown:
\* catch: setError(err.message); finally: setLoading(false)
fetchFailed(i, message) ==
    /\ error' = message
    /\ loading' = FALSE
    /\ UNCHANGED data

FetchIdleOthers ==
    UNCHANGED <<reducerVars, appVars, clickVars, counterVars, movieVars,
                prevValueVars, protectedVars>>

UrlChange ==
    /\ \E u \in FetchUrls : urlChanged(u)
    /\ fetchEvent' = "effect"
    /\ UNCHANGED fetchSettled
    /\ FetchIdleOthers

FetchSuccess ==
    /\ \E i \in 1..Len(fetchRequests) :
            /\ fetchSucceeded(i)
            /\ fetchSettled' = fetchRequests[i]
            /\ fetchRequests' = RemoveAt(fetchRequests, i)
    /\ fetchEvent' = "success"
    /\ UNCHANGED url
    /\ FetchIdleOthers

FetchNotOk ==
    /\ \E i \in 1..Len(fetchRequests) :
            /\ fetchFailed(i, NotOkMessage)
            /\ fetchSettled' = fetchRequests[i]
            /\ fetchRequests' = RemoveAt(fetchRequests, i)
    /\ fetchEvent' = "notOk"
    /\ UNCHANGED url
    /\ FetchIdleOthers

FetchReject ==
    /\ \E i \in 1..Len(fetchRequests) :
            /\ fetchFailed(i, FailedToFetch)
            /\ fetchSettled' = fetchRequests[i]
            /\ fetchRequests' = RemoveAt(fetchRequests, i)
    /\ fetchEvent' = "rejected"
    /\ UNCHANGED url
    /\ FetchIdleOthers

FetchInit ==
    /\ \E u \in FetchUrls : FetchMounted(u)
    /\ ReducerIdle
    /\ AppInit
    /\ ClickInit
    /\ CounterInit
    /\ MovieInit
    /\ PrevValueInit
    /\ ProtectedInit

FetchNext == UrlChange \/ FetchSuccess \/ FetchNotOk \/ FetchReject

FetchSpec == FetchInit /\ [][FetchNext]_vars

(***************************************************************************)
(* PreviousValueSpec: PreviousValueExample of Workshop 3 (Workshop3.md,    *)
(* "Storing Previous Values").  A render reads count and                   *)
(* previousCount.current; the effect has no dependency array, so it runs   *)
(* after every render, and React runs it before it handles the next event. *)
(***************************************************************************)
\* The JSX of one render: Current: {count}, Previous: {previousCount.current}
PreviousValueRender(cause) ==
    /\ shownCurrent' = pvCount'
    /\ shownPrevious' = previousCount
    /\ effectPending' = TRUE
    /\ renderCause' = cause
    /\ UNCHANGED previousCount

\* (mutant: the effect given the dependency array [], so that it runs after
\*  the first render only)
storePrevious_onMountOnly ==
    /\ effectPending
    /\ previousCount' = IF renderCause = "mount" THEN pvCount ELSE previousCount
    /\ effectPending' = FALSE
    /\ UNCHANGED <<pvCount, shownCurrent, shownPrevious, pvClicks, renderCause>>

\* useEffect(() => { previousCount.current = count; });
storePrevious ==
    /\ effectPending
    /\ previousCount' = pvCount
    /\ effectPending' = FALSE
    /\ UNCHANGED <<pvCount, shownCurrent, shownPrevious, pvClicks, renderCause>>

\* onClick={() => setCount(count + 1)}: count is the one of the render that
\* made the handler; the component renders again.
incrementClick ==
    /\ ~effectPending
    /\ pvClicks < MaxPrevClicks
    /\ pvCount' = shownCurrent + 1
    /\ pvClicks' = pvClicks + 1
    /\ PreviousValueRender("click")

\* The component is rendered again without a click, because its parent is.
parentRenders ==
    /\ ~effectPending
    /\ UNCHANGED <<pvCount, pvClicks>>
    /\ PreviousValueRender("parent")

PrevValueIdle ==
    UNCHANGED <<reducerVars, appVars, clickVars, counterVars, movieVars,
                fetchVars, protectedVars>>

RunEffect == storePrevious /\ PrevValueIdle
PrevIncrement == incrementClick /\ PrevValueIdle
ParentRender == parentRenders /\ PrevValueIdle

PreviousValueSpecInit ==
    /\ PrevValueInit
    /\ FetchIdle
    /\ ReducerIdle
    /\ AppInit
    /\ ClickInit
    /\ CounterInit
    /\ MovieInit
    /\ ProtectedInit

PreviousValueNext == RunEffect \/ PrevIncrement \/ ParentRender

PreviousValueSpec == PreviousValueSpecInit /\ [][PreviousValueNext]_vars

(***************************************************************************)
(* ProtectedSpec: ProtectedRoute of Workshop 3 (Workshop3.md, "Redirects   *)
(* and Protected Routes"), wrapped around the pages of "/dashboard" and    *)
(* "/settings" of an application whose "/" is public.  The user logs in    *)
(* and out, follows links and goes back and forward; each of these renders *)
(* the route of the current history entry.                                 *)
(***************************************************************************)
Navigate(to, replace) == [type |-> "Navigate", to |-> to, replace |-> replace]

\* (mutant: <Navigate to="/" /> without replace)
ProtectedRoute_push(props) ==
    IF props.user = Null THEN Navigate("/", FALSE) ELSE props.children

\* if (!user) { return <Navigate to="/" replace />; } return children;
ProtectedRoute(props) ==
    IF props.user = Null THEN Navigate("/", TRUE) ELSE props.children

\* The page each protected path wraps in ProtectedRoute.
PageOf(path) ==
    IF path = "/dashboard" THEN [type |-> "Dashboard"] ELSE [type |-> "Settings"]

\* Rendering the route of entry idx of hist for user u.  <Navigate> changes
\* the location when it is rendered: with replace it overwrites the current
\* entry, without it pushes one; the route of "/" is then rendered.
RenderRoute(hist, idx, u) ==
    IF hist[idx] = "/"
    THEN /\ location' = hist
         /\ locIdx' = idx
         /\ screen' = [type |-> "Home"]
         /\ guardIdx' = 0
         /\ UNCHANGED <<guardProps, guardOutput>>
    ELSE LET props == [user |-> u, children |-> PageOf(hist[idx])]
             out == ProtectedRoute(props)
         IN  /\ guardProps' = props
             /\ guardOutput' = out
             /\ guardIdx' = idx
             /\ IF out.type = "Navigate"
                THEN /\ location' = IF out.replace
                                    THEN [hist EXCEPT ![idx] = out.to]
                                    ELSE Append(SubSeq(hist, 1, idx), out.to)
                     /\ locIdx' = IF out.replace THEN idx ELSE idx + 1
                     /\ screen' = [type |-> "Home"]
                ELSE /\ location' = hist
                     /\ locIdx' = idx
                     /\ screen' = out

\* The application's user state changes and the current route renders again.
setUser(u) ==
    /\ u # user
    /\ user' = u
    /\ RenderRoute(location, locIdx, u)

\* A link to a path is followed: an entry is pushed after the current one.
visit(path) ==
    /\ locIdx < MaxHistory
    /\ UNCHANGED user
    /\ RenderRoute(Append(SubSeq(location, 1, locIdx), path), locIdx + 1, user)

\* The browser's back and forward buttons.
goTo(j) ==
    /\ j # locIdx
    /\ UNCHANGED user
    /\ RenderRoute(location, j, user)

ProtectedIdle ==
    UNCHANGED <<reducerVars, appVars, clickVars, counterVars, movieVars,
                fetchVars, prevValueVars>>

LogInOrOut == (\E u \in Users \cup {Null} : setUser(u)) /\ ProtectedIdle
Visit == (\E path \in Paths : visit(path)) /\ ProtectedIdle
GoTo == (\E j \in 1..Len(location) : goTo(j)) /\ ProtectedIdle

ProtectedSpecInit ==
    /\ ProtectedInit
    /\ ReducerIdle
    /\ AppInit
    /\ ClickInit
    /\ CounterInit
    /\ MovieInit
    /\ FetchIdle
    /\ PrevValueInit

ProtectedNext == LogInOrOut \/ Visit \/ GoTo

ProtectedSpec == ProtectedSpecInit /\ [][ProtectedNext]_vars

(***************************************************************************)
(* Properties of the reducer, checked under ReducerSpec.  After a call,    *)
(* prevSnapshot is the list the call was given, lastAction its action and  *)
(* store[cur] the list it returned.                                        *)
(***************************************************************************)
Called == calls > 0
Result == store[cur]

\* C1: ADD_TASK carrying T applied to L returns a list of length len(L)+1
\* whose last element is T and whose first len(L) elements are those of L,
\* in the same order.
C1_AddTaskAppends ==
    (Called /\ lastAction.type = "ADD_TASK") =>
        /\ Len(Result) = Len(prevSnapshot) + 1
        /\ Result[Len(Result)] = lastAction.payload
        /\ \A i \in 1..Len(prevSnapshot) : Result[i] = prevSnapshot[i]

\* C1 witness: a task was added to a list of two different tasks.
C1_Witness ==
    /\ Called
    /\ lastAction.type = "ADD_TASK"
    /\ Len(prevSnapshot) = 2
    /\ prevSnapshot[1] # prevSnapshot[2]
    /\ lastAction.payload # prevSnapshot[2]
    /\ Len(Result) = 3

\* Positions of L whose task is not titled K, and the j-th smallest of them.
KeptPositions(L, K) == {i \in 1..Len(L) : L[i].title # K}
NthKept(L, K, j) ==
    CHOOSE i \in KeptPositions(L, K) :
        Cardinality({m \in KeptPositions(L, K) : m <= i}) = j

\* C2: DELETE_TASK carrying K applied to L returns exactly the tasks of L
\* whose title differs from K, in their original relative order; the result
\* has len(L) minus the number of tasks of L titled K elements.
C2_DeleteTaskFilters ==
    (Called /\ lastAction.type = "DELETE_TASK") =>
        LET L == prevSnapshot
            K == lastAction.payload
        IN  /\ Len(Result) = Len(L) - Cardinality({i \in 1..Len(L) : L[i].title = K})
            /\ \A j \in 1..Len(Result) : Result[j] = L[NthKept(L, K, j)]

\* C2 witness: the middle task of three was deleted and two different tasks
\* remain.
C2_Witness ==
    /\ Called
    /\ lastAction.type = "DELETE_TASK"
    /\ Len(prevSnapshot) = 3
    /\ prevSnapshot[2].title = lastAction.payload
    /\ Len(Result) = 2
    /\ Result[1] # Result[2]

\* C3: DELETE_TASK with K applied twice in succession yields the same list
\* as applying it once: the second of two successive deletions with the
\* same title returns a list equal to the one it was given.
C3_DeleteIdempotent ==
    [][ ( /\ Called
          /\ lastAction.type = "DELETE_TASK"
          /\ calls' = calls + 1
          /\ lastAction'.type = "DELETE_TASK"
          /\ lastAction'.payload = lastAction.payload )
        => store'[cur'] = store[cur] ]_vars

\* C3 witness: two calls were made, the first removed every task titled K
\* from a list that held some, the second was DELETE_TASK with K again.
C3_Witness ==
    /\ calls = 2
    /\ Len(store) = 3
    /\ lastAction.type = "DELETE_TASK"
    /\ \E i \in 1..Len(store[1]) : store[1][i].title = lastAction.payload
    /\ Len(store[2]) > 0
    /\ \A i \in 1..Len(store[2]) : store[2][i].title # lastAction.payload
    /\ Len(store[2]) < Len(store[1])

\* C4: an action whose type is neither ADD_TASK nor DELETE_TASK returns a
\* list equal to the one given: nothing added, removed or reordered.
C4_UnknownActionIdentity ==
    (Called /\ lastAction.type \notin {"ADD_TASK", "DELETE_TASK"}) =>
        Result = prevSnapshot

\* C4 witness: an unrecognised action carrying a payload was applied to a
\* list of two different tasks.
C4_Witness ==
    /\ Called
    /\ lastAction.type = "add_task"
    /\ "payload" \in DOMAIN lastAction
    /\ Len(prevSnapshot) = 2
    /\ prevSnapshot[1] # prevSnapshot[2]

\* C5: DELETE_TASK with a title K that no task of L has returns a list
\* equal to L, and returns it (the call does not fail).
C5_DeleteNoMatch ==
    ( /\ Called
      /\ lastAction.type = "DELETE_TASK"
      /\ \A i \in 1..Len(prevSnapshot) : prevSnapshot[i].title # lastAction.payload )
    => /\ cur \in 1..Len(store)
       /\ Result = prevSnapshot

\* C5 witness: a title no task has was deleted from a list of two tasks.
C5_Witness ==
    /\ Called
    /\ lastAction.type = "DELETE_TASK"
    /\ lastAction.payload = "Z"
    /\ Len(prevSnapshot) = 2
    /\ prevSnapshot[1] # prevSnapshot[2]

\* C6: ADD_TASK and DELETE_TASK never modify the list they were given: every
\* array that exists before a call holds the same elements in the same
\* order after it.
C6_PreviousListUnmodified ==
    [][ \A r \in 1..Len(store) : store'[r] = store[r] ]_vars

\* C6 witness: an ADD_TASK and then a DELETE_TASK that removed a task were
\* applied, and the list given to the last call is still as it was.
C6_Witness ==
    /\ calls = 2
    /\ Len(store) = 3
    /\ Len(store[2]) = Len(store[1]) + 1
    /\ lastAction.type = "DELETE_TASK"
    /\ Len(store[3]) < Len(store[2])
    /\ store[prev] = prevSnapshot

\* A task list: a finite sequence of tasks, each a title and a description.
IsTaskList(l) ==
    /\ DOMAIN l = 1..Len(l)
    /\ \A i \in 1..Len(l) : l[i] \in TaskValues

\* C8: the reducer is total: for every list and every action (ADD_TASK with
\* any task, the empty-strings task included, DELETE_TASK with any title, an
\* unrecognised type) the call returns a task list.
C8_ReducerTotal ==
    /\ cur \in 1..Len(store)
    /\ IsTaskList(store[cur])

\* C8 witness: a task whose title and description are empty strings was
\* added, after an unrecognised action.
C8_Witness ==
    /\ calls = 2
    /\ Len(store) = 2
    /\ lastAction.type = "ADD_TASK"
    /\ lastAction.payload = [title |-> "", description |-> ""]
    /\ Result[Len(Result)] = lastAction.payload

(***************************************************************************)
(* Properties of the application, checked under Spec.                      *)
(***************************************************************************)
\* C9: the task list is empty at start and changes only as the result of a
\* dispatched ADD_TASK or DELETE_TASK action; editing the Form's title or
\* description input leaves it unchanged.
C9_TasksChangeOnlyByDispatch ==
    /\ tasks = <<>>
    /\ [][ /\ (tasks' # tasks) =>
                /\ Len(dispatched') = Len(dispatched) + 1
                /\ dispatched'[Len(dispatched')].type \in {"ADD_TASK", "DELETE_TASK"}
           /\ ((title' # title \/ description' # description) /\ dispatched' = dispatched)
                => tasks' = tasks ]_vars

\* C9 witness: both inputs were edited after a task had been added, and the
\* list still holds just that task.
C9_Witness ==
    /\ Len(dispatched) = 1
    /\ Len(tasks) = 1
    /\ tasks[1] = dispatched[1].payload
    /\ title = "A"
    /\ description = "x"

\* reducer folded over a sequence of actions, from the empty list.
RECURSIVE Folded(_)
Folded(actions) ==
    IF actions = <<>> THEN <<>>
    ELSE LET n == Len(actions)
         IN  useReducer(Folded(SubSeq(actions, 1, n - 1)), actions[n])

\* C10: after any sequence of dispatched actions a1..an the task list is the
\* reducer folded over a1..an from the empty list: each action applied once,
\* in dispatch order, to the list the one before it produced.
C10_TasksAreFoldOfDispatched ==
    tasks = Folded(dispatched)

\* C10 witness: two tasks were added and the first was then deleted, so the
\* list depends on the order and on every action.
C10_Witness ==
    /\ Len(dispatched) = 3
    /\ dispatched[1].type = "ADD_TASK"
    /\ dispatched[2].type = "ADD_TASK"
    /\ dispatched[3].type = "DELETE_TASK"
    /\ dispatched[3].payload = dispatched[1].payload.title
    /\ tasks = <<dispatched[2].payload>>

\* C11: when Add Task is clicked an ADD_TASK action is dispatched whose
\* payload holds the title and description the inputs had at the click, and
\* afterwards both inputs are the empty string.
C11_AddClickDispatchesAndClears ==
    [][ ( /\ Len(dispatched') = Len(dispatched) + 1
          /\ dispatched'[Len(dispatched')].type = "ADD_TASK" )
        => /\ dispatched'[Len(dispatched')].payload =
                  [title |-> title, description |-> description]
           /\ title' = ""
           /\ description' = "" ]_vars

\* C11 witness: Add Task was just clicked with both inputs filled in: the
\* task is the last of the list and the inputs are empty.
C11_Witness ==
    /\ Len(dispatched) = 2
    /\ dispatched[2] = AddTask([title |-> "A", description |-> "x"])
    /\ tasks[Len(tasks)] = [title |-> "A", description |-> "x"]
    /\ title = ""
    /\ description = ""

\* The tasks of the list by identity: a task is named by the position in
\* `actions` of the ADD_TASK that created it.  ADD_TASK appends the new
\* task, DELETE_TASK drops the tasks with the payload's title.
RECURSIVE TaskIds(_)
TaskIds(actions) ==
    IF actions = <<>> THEN <<>>
    ELSE LET n == Len(actions)
             before == TaskIds(SubSeq(actions, 1, n - 1))
         IN  IF actions[n].type = "ADD_TASK" THEN Append(before, n)
             ELSE SelectSeq(before,
                            LAMBDA id : actions[id].payload.title # actions[n].payload)

\* The key under which task `id` is displayed, given the actions so far.
KeyOfTask(actions, id) ==
    LET ids == TaskIds(actions)
        pos == CHOOSE i \in 1..Len(ids) : ids[i] = id
    IN  TasksKeys(ids)[pos]

InList(actions, id) == \E i \in 1..Len(TaskIds(actions)) : TaskIds(actions)[i] = id

\* C12: the display key of a task is stable: a task that stays in the list
\* keeps its key across every ADD_TASK and DELETE_TASK transition, and no two
\* tasks displayed together share a key.
C12_KeysStableAndUnique ==
    [][ /\ \A id \in 1..Len(dispatched) :
              (InList(dispatched, id) /\ InList(dispatched', id))
                  => KeyOfTask(dispatched', id) = KeyOfTask(dispatched, id)
        /\ \A i, j \in 1..Len(tasks') :
              i # j => TasksKeys(tasks')[i] # TasksKeys(tasks')[j] ]_vars

\* Number of tasks of `list` titled K.
CountTitled(list, K) == Cardinality({i \in 1..Len(list) : list[i].title = K})

\* C13: tasks with the same title cannot be deleted independently: from a
\* list holding two or more tasks titled K, no single dispatched action
\* leads to a list holding some but not all of them.
C13_DuplicatesDeletedTogether ==
    [][ \A K \in Titles :
            CountTitled(tasks, K) >= 2 =>
                \/ CountTitled(tasks', K) = 0
                \/ CountTitled(tasks', K) >= CountTitled(tasks, K) ]_vars

\* C13 witness: two tasks titled "A" with different descriptions were
\* added, the Delete Task button of one of them was clicked, and both are
\* gone.
C13_Witness ==
    /\ Len(dispatched) = 3
    /\ dispatched[1] = AddTask([title |-> "A", description |-> ""])
    /\ dispatched[2] = AddTask([title |-> "A", description |-> "x"])
    /\ dispatched[3].type = "DELETE_TASK"
    /\ dispatched[3].payload = "A"
    /\ tasks = <<>>

\* C14: the task list has no terminal state: in every reachable list the Add
\* Task transition is enabled and leads to a list one task longer (up to the
\* number of dispatches explored).
C14_AddAlwaysEnabled ==
    Len(dispatched) < MaxDispatch =>
        ENABLED (AddClick /\ Len(tasks') = Len(tasks) + 1)

\* C14 witness: a task was added and deleted again, the inputs are empty,
\* the list is empty, and Add Task is still enabled.
C14_Witness ==
    /\ Len(dispatched) = 2
    /\ dispatched[2].type = "DELETE_TASK"
    /\ tasks = <<>>
    /\ title = ""
    /\ description = ""
    /\ ENABLED AddClick

(***************************************************************************)
(* Properties of the two counters.                                         *)
(***************************************************************************)
\* C15: the click counter starts at 0 and every click takes effect: an
\* Increment click raises the displayed count by exactly 1, a Decrement click
\* lowers it by exactly 1, so the count is the number of Increment clicks
\* minus the number of Decrement clicks.
C15_CountIsClicksDifference ==
    /\ shownCount = 0
    /\ [][ /\ increments' = increments + 1 => shownCount' = shownCount + 1
           /\ decrements' = decrements + 1 => shownCount' = shownCount - 1
           /\ shownCount' = increments' - decrements' ]_vars

\* C15 witness: two Increment and three Decrement clicks, -1 displayed.
C15_Witness ==
    /\ increments = 2
    /\ decrements = 3
    /\ shownCount = -1

\* C16: from count 0, after any sequence of increment, decrement and reset
\* actions the count is the number of increments minus the number of
\* decrements since the last reset (or the start); an action of any other
\* type leaves the count unchanged.
C16_CounterReducerCounts ==
    /\ counterState.count = 0
    /\ [][ /\ counterState'.count = incsSinceReset' - decsSinceReset'
           /\ ( /\ counterDispatches' = counterDispatches + 1
                /\ counterAction'.type \notin CounterTypes )
              => counterState'.count = counterState.count ]_vars

\* C16 witness: increment, reset, then decrement twice and an unknown action:
\* the count is -2.
C16_Witness ==
    /\ counterDispatches = 5
    /\ counterAction.type = "INCREMENT"
    /\ incsSinceReset = 0
    /\ decsSinceReset = 2
    /\ counterState.count = -2

(***************************************************************************)
(* Properties of the show-search application, checked under MovieSpec.     *)
(***************************************************************************)
\* C17: darkMode starts false and every call of toggleTheme flips it: after
\* n calls darkMode is true exactly when n is odd.
C17_DarkModeIsParityOfToggles ==
    darkMode = (toggles % 2 = 1)

\* C17 witness: toggleTheme was called three times, the last call just now,
\* on a ShowDetail page, and darkMode is true.
C17_Witness ==
    /\ toggles = 3
    /\ lastEvent = "toggleTheme"
    /\ Route # 0
    /\ darkMode = TRUE

\* C18: the theme persists across navigation: a route change between Home
\* and a ShowDetail page, in either direction, leaves darkMode unchanged.
C18_ThemeSurvivesNavigation ==
    [][ (history'[histIdx'] # history[histIdx]) => darkMode' = darkMode ]_vars

\* C18 witness: with dark mode on, the user went from Home to a show and
\* back to Home; the last step was the route change and darkMode is true.
C18_Witness ==
    /\ lastEvent = "navigate"
    /\ history = <<0, 1, 0>>
    /\ histIdx = 3
    /\ toggles = 1
    /\ darkMode = TRUE

\* C19: clicking Search while the input is empty starts no request and
\* leaves the shows list unchanged; clicking it with a non-empty input starts
\* exactly one request, for that text.
C19_SearchGuardsEmptyQuery ==
    [][ lastEvent' = "searchShows" =>
            /\ shows' = shows
            /\ searchRequests' = IF searchInput = "" THEN searchRequests
                                 ELSE Append(searchRequests, searchInput) ]_vars

\* C19 witness: Search was just clicked with an empty input while shows were
\* listed and a request was in flight; nothing was started.
C19_Witness ==
    /\ lastEvent = "searchShows"
    /\ searchInput = ""
    /\ shows # <<>>
    /\ Len(searchRequests) = 1

\* C20: whenever ShowDetail displays a show's details rather than Loading,
\* they are the details fetched for the id currently in the route.
C20_DetailsMatchRoute ==
    (Route # 0 /\ show \in ShowIds) => show = Route

(***************************************************************************)
(* Properties of useFetch, checked under FetchSpec.  After a request has   *)
(* finished, fetchSettled is its url and fetchEvent how it finished.       *)
(***************************************************************************)
FailureMessage(event) ==
    IF event = "notOk" THEN NotOkMessage ELSE FailedToFetch

\* C21: loading is true when the hook starts and false after every request
\* that finishes; a request that succeeds stores its result in data, and one
\* that fails (the fetch rejected or the response not ok) stores the error's
\* message in error and leaves data as it was.
C21_FetchOutcomes ==
    /\ (fetchSettled = 0 /\ fetchEvent = "effect") => loading = TRUE
    /\ [][ /\ fetchEvent' = "success" =>
                  /\ loading' = FALSE
                  /\ data' = fetchSettled'
           /\ fetchEvent' \in {"notOk", "rejected"} =>
                  /\ loading' = FALSE
                  /\ error' = FailureMessage(fetchEvent')
                  /\ data' = data ]_vars

\* A request fails after an earlier one succeeded: the error is stored and
\* the data of the earlier request is still there.
C21_Witness ==
    /\ fetchEvent = "notOk"
    /\ error = NotOkMessage
    /\ data # 0
    /\ loading = FALSE

\* C22: whenever a request the hook started has not finished, loading is
\* true.
C22_LoadingWhileInFlight ==
    fetchRequests # <<>> => loading = TRUE

\* C30: data and error are never both non-null.
C30_DataXorError ==
    ~(data # 0 /\ error # Null)

(***************************************************************************)
(* Properties of ProtectedRoute, checked under ProtectedSpec.  After a     *)
(* step that rendered ProtectedRoute, guardProps are the props it was      *)
(* given, guardOutput what it returned and guardIdx the history entry it   *)
(* was rendered at; guardIdx is 0 after a step that did not render it.     *)
(***************************************************************************)
ProtectedPages == {PageOf(path) : path \in Paths \ {"/"}}

\* C23: ProtectedRoute renders its children exactly when user is present;
\* when user is absent it renders only a redirect to "/" that replaces the
\* current history entry, so the children are never on the screen then.
C23_ProtectedRouteGuards ==
    /\ guardIdx # 0 =>
          IF guardProps.user = Null
          THEN /\ guardOutput = Navigate("/", TRUE)
               /\ screen \notin ProtectedPages
               /\ locIdx = guardIdx
               /\ location[locIdx] = "/"
          ELSE /\ guardOutput = guardProps.children
               /\ screen = guardProps.children
    /\ user = Null => screen \notin ProtectedPages

\* With nobody logged in, a link to a protected page is followed from "/":
\* the entry pushed for it has been replaced by "/".
C23_Witness ==
    /\ user = Null
    /\ guardIdx = 2
    /\ guardOutput.type = "Navigate"
    /\ location = <<"/", "/">>
    /\ locIdx = 2

(***************************************************************************)
(* Properties of PreviousValueExample, checked under PreviousValueSpec.    *)
(***************************************************************************)
\* C24: the first render shows no Previous (null), and a render caused by
\* the k-th Increment click shows Current k and Previous k - 1.
C24_PreviousIsOneBehind ==
    /\ renderCause = "mount" =>
          /\ shownCurrent = 0
          /\ shownPrevious = NullRef
    /\ renderCause = "click" =>
          /\ shownCurrent = pvClicks
          /\ shownPrevious = pvClicks - 1

\* The third click has been rendered and its effect has not run yet.
C24_Witness ==
    /\ renderCause = "click"
    /\ pvClicks = 3
    /\ shownCurrent = 3
    /\ shownPrevious = 2
    /\ previousCount = 2
    /\ effectPending

(***************************************************************************)
(* Properties of the searches of Home and of the fetches of ShowDetail,    *)
(* checked under MovieSpec.                                                *)
(***************************************************************************)
\* C25: once every search Home started has been answered, shows holds the
\* results of the search started last, whatever order the answers came in.
C25_LastSearchWins ==
    (Route = 0 /\ lastQuery # "" /\ searchRequests = <<>> /\ ~searchFailed)
        => shows = SearchResults(lastQuery)

\* C26: ShowDetail displays Loading exactly when show is null; show is null
\* when ShowDetail mounts and stays null until a successful response is
\* delivered, and a fetch that fails leaves show as it was.
C26_LoadingUntilSuccess ==
    /\ Route # 0 => (ShowDetailRender(show) = "Loading..." <=> show = 0)
    /\ [][ /\ (Route = 0 /\ Route' # 0) => show' = 0
           /\ (Route' # 0 /\ show = 0 /\ show' # 0) => lastEvent' = "detailResolved"
           /\ lastEvent' \in {"detailRejected", "detailErrorStatus"} => show' = show
       ]_vars

(***************************************************************************)
(* Further properties of the to-do list, checked under Spec (C27) and      *)
(* ReducerSpec (C28, C29).                                                 *)
(***************************************************************************)
\* C27: every DELETE_TASK action a Delete Task button dispatches carries the
\* title of a task that is in the list the action is applied to, so the
\* click shortens the list by at least one element.
C27_DeleteClickRemoves ==
    [][ (/\ Len(dispatched') = Len(dispatched) + 1
         /\ dispatched'[Len(dispatched')].type = "DELETE_TASK")
        => /\ \E i \in 1..Len(tasks) :
                  tasks[i].title = dispatched'[Len(dispatched')].payload
           /\ Len(tasks') < Len(tasks) ]_vars

\* The Delete Task button of a task with an empty title and a description
\* was clicked while another task was in the list.
C27_Witness ==
    /\ Len(dispatched) = 3
    /\ dispatched[1] = AddTask([title |-> "", description |-> "x"])
    /\ dispatched[2] = AddTask([title |-> "B", description |-> ""])
    /\ dispatched[3] = DeleteTask("")
    /\ tasks = <<[title |-> "B", description |-> ""]>>

\* C28: for a list L in which no task is titled T.title, DELETE_TASK with
\* T.title applied to the result of ADD_TASK with T on L gives L.
C28_AddThenDeleteRestores ==
    [][ (/\ Called
         /\ calls' = calls + 1
         /\ lastAction.type = "ADD_TASK"
         /\ \A i \in 1..Len(prevSnapshot) :
                prevSnapshot[i].title # lastAction.payload.title
         /\ lastAction' = DeleteTask(lastAction.payload.title))
        => store'[cur'] = prevSnapshot ]_vars

\* A task described "x" was added to a list of one task with another title
\* and then deleted by its title.
C28_Witness ==
    /\ calls = 2
    /\ Len(store) = 3
    /\ Len(store[1]) = 1
    /\ Len(store[2]) = 2
    /\ store[2][2].description = "x"
    /\ store[2][2].title # store[1][1].title
    /\ lastAction = DeleteTask(store[2][2].title)
    /\ prevSnapshot = store[2]
    /\ Result = store[1]

\* C29: for a list L and titles K1 and K2, DELETE_TASK with K1 and then with
\* K2 gives the same list as DELETE_TASK with K2 and then with K1.  The run
\* applies K1 then K2 to L; the other order is computed from L.
C29_DeletionsCommute ==
    [][ (/\ Called
         /\ calls' = calls + 1
         /\ lastAction.type = "DELETE_TASK"
         /\ lastAction'.type = "DELETE_TASK")
        => store'[cur'] =
              useReducer(useReducer(prevSnapshot, lastAction'), lastAction) ]_vars

\* Two deletions in a row that each removed a task of a two-task list.
C29_Witness ==
    /\ calls = 2
    /\ Len(store) = 3
    /\ lastAction.type = "DELETE_TASK"
    /\ Len(store[1]) = 2
    /\ Len(store[2]) = 1
    /\ Len(store[3]) = 0
    /\ store[1][1].title # store[1][2].title

====
